---- MODULE Spec2Model ----
(***************************************************************************)
(* rocket-include-dir: StaticFiles, a Rocket route handler that serves the *)
(* files of an include_dir tree embedded in the binary (src/src/lib.rs).   *)
(*                                                                         *)
(* Text is modelled as sequences of one-character strings, a path as the   *)
(* sequence of its components, a URI path as the sequence of its raw       *)
(* segments (the text between the slashes; "/m/s/" is <<m, s, <<>>>>), a    *)
(* file's bytes as a sequence of numbers.                                  *)
(***************************************************************************)
EXTENDS Integers, Sequences, FiniteSets, TLC

VARIABLES
    dir,            \* the embedded tree (static PROJECT_DIR)
    unrenderable,   \* paths of the files whose contents().respond_to() fails
    sf,             \* the StaticFiles value being built / mounted
    routes,         \* the routes the StaticFiles was converted into
    op,             \* the last construction operation applied
    req,            \* the request last handled by the sequential server
    res,            \* the Outcome of that request
    mounts,         \* launch(): mount segment -> StaticFiles
    slots           \* concurrent server: the handle() invocations in flight

vars == <<dir, unrenderable, sf, routes, op, req, res, mounts, slots>>

----------------------------------------------------------------------------
(* Bounds *)

\* Longest request path, in segments after the mount point.
MaxSegs == 2
\* Handle invocations in flight at once in the concurrent server.
MaxInflight == 2

----------------------------------------------------------------------------
(* Option<T>, Result<T, E> *)

None == [tag |-> "None"]
Some(x) == [tag |-> "Some", val |-> x]
Ok(x) == [ok |-> TRUE, val |-> x]
Err(e) == [ok |-> FALSE, err |-> e]

----------------------------------------------------------------------------
(* Names *)

SegIndex == <<"i", "n", "d", "e", "x", ".", "h", "t", "m", "l">>
SegTxt == <<"t", ".", "t", "x", "t">>
SegHidden == <<".", "h">>
SegSub == <<"s">>
SegOdd == <<"n", ".", "z">>
SegDotDot == <<".", ".">>
SegDot == <<".">>
SegEmpty == <<>>
SegDefault == <<"d", "e", "f", "a", "u", "l", "t">>
SegIndexed == <<"i", "n", "d", "e", "x", "e", "d">>

\* The segments a request is made of.
Alphabet == {SegIndex, SegTxt, SegHidden, SegSub, SegOdd, SegDotDot, SegDot}

starts_with(s, c) == Len(s) > 0 /\ s[1] = c
ends_with(s, c) == Len(s) > 0 /\ s[Len(s)] = c
contains(s, c) == \E i \in 1..Len(s) : s[i] = c

----------------------------------------------------------------------------
(* rocket::fs::Options: a bit set; the handler reads three of its flags. *)

Flags == {"Index", "DotFiles", "NormalizeDirs"}
AllOptions == SUBSET Flags
\* Options::default()
DefaultOptions == {"Index", "NormalizeDirs"}

----------------------------------------------------------------------------
(* include_dir: Dir, DirEntry, File.  Every entry carries its full path,   *)
(* relative to the directory given to include_dir!().                      *)

FileEntry(p, bytes) == [path |-> p, kind |-> "File", contents |-> bytes]
DirEntry(p) == [path |-> p, kind |-> "Dir", contents |-> <<>>]
\* The Dir at the root of a tree.
RootDir == DirEntry(<<>>)

\* The entries every tree of the model holds.
BaseEntries ==
    { FileEntry(<<SegTxt>>, <<2, 3>>),
      FileEntry(<<SegHidden>>, <<4>>),
      DirEntry(<<SegSub>>),
      FileEntry(<<SegSub, SegOdd>>, <<6, 7, 8>>) }

\* index.html in a directory: absent, a file, or a directory of that name.
IndexVariants(d, bytes) ==
    { {}, {FileEntry(d \o <<SegIndex>>, bytes)}, {DirEntry(d \o <<SegIndex>>)} }

Trees ==
    { BaseEntries \cup r \cup s :
        r \in IndexVariants(<<>>, <<1>>), s \in IndexVariants(<<SegSub>>, <<5>>) }

\* Dir::entries(): the direct children of the Dir d of a tree.
entries(tree, d) ==
    { e \in tree : Len(e.path) = Len(d.path) + 1
                   /\ SubSeq(e.path, 1, Len(d.path)) = d.path }

\* Dir::get_entry(path) of include_dir 0.7: searches the Dir and the Dirs
\* below it for the entry whose path, which is relative to the root of the
\* tree and not to the Dir searched, equals path.
RECURSIVE get_entry(_, _, _)
get_entry(tree, d, path) ==
    LET kids == entries(tree, d)
        direct == { e \in kids : e.path = path }
        nested == { get_entry(tree, c, path) : c \in { k \in kids : k.kind = "Dir" } }
                    \ {None}
    IN  IF direct /= {} THEN Some(CHOOSE e \in direct : TRUE)
        ELSE IF nested /= {} THEN CHOOSE n \in nested : TRUE
        ELSE None

\* DirEntry::as_file, DirEntry::as_dir
as_file(entry) == IF entry.kind = "File" THEN Some(entry) ELSE None
as_dir(entry) == IF entry.kind = "Dir" THEN Some(entry) ELSE None

\* Dir::get_file(path), Dir::get_dir(path)
get_file(tree, d, path) ==
    LET entry == get_entry(tree, d, path)
    IN  IF entry.tag = "Some" THEN as_file(entry.val) ELSE None
get_dir(tree, d, path) ==
    LET entry == get_entry(tree, d, path)
    IN  IF entry.tag = "Some" THEN as_dir(entry.val) ELSE None

----------------------------------------------------------------------------
(* std::path: a PathBuf is held as the sequence of its components, the     *)
(* form in which Path's equality compares two paths.                       *)

\* PathBuf::push(segment); pushing "" adds a separator and no component.
push(buf, segment) == IF segment = SegEmpty THEN buf ELSE Append(buf, segment)
\* PathBuf::pop()
pop(buf) == IF buf = <<>> THEN buf ELSE SubSeq(buf, 1, Len(buf) - 1)
\* Path::join(name)
join(buf, name) == push(buf, name)
\* p.as_os_str().is_empty()
is_empty(buf) == buf = <<>>

\* The index of the last "." of a name, 0 when it has none.
last_dot(name) ==
    LET dots == { i \in 1..Len(name) : name[i] = "." }
    IN  IF dots = {} THEN 0 ELSE CHOOSE i \in dots : \A j \in dots : j <= i

\* Path::extension(): the part of the file name after its last ".", None
\* when there is no file name, no ".", or the only "." starts the name.
extension(buf) ==
    IF buf = <<>> THEN None
    ELSE LET name == buf[Len(buf)]
             k == last_dot(name)
         IN  IF k <= 1 THEN None ELSE Some(SubSeq(name, k + 1, Len(name)))

----------------------------------------------------------------------------
(* rocket::http *)

ContentTypeBinary == "application/octet-stream"
ContentTypePlain == "text/plain; charset=utf-8"
ContentTypeHTML == "text/html; charset=utf-8"
NoContentType == "(no Content-Type)"

\* ContentType::from_extension(ext)
from_extension(ext) ==
    IF ext = <<"t", "x", "t">> THEN Some(ContentTypePlain)
    ELSE IF ext = <<"h", "t", "m", "l">> THEN Some(ContentTypeHTML)
    ELSE None

\* Origin: path and query.
Queries == {None, Some(<<"q">>)}
Uri(path, query) == [path |-> path, query |-> query]

\* req.uri().path().ends_with('/'): the text after the last slash is empty.
path_ends_with_slash(uri) == uri.path[Len(uri.path)] = SegEmpty

\* Variant of map_path_add_slash: the location is rebuilt from the path
\* alone and the query is lost.
map_path_add_slash_no_query(uri) == Uri(Append(uri.path, SegEmpty), None)

\* uri.map_path(|p| format!("{}/", p)): the text after the new last slash
\* is empty; the query is kept.
map_path_add_slash(uri) == Uri(Append(uri.path, SegEmpty), uri.query)

\* Path::segments(): the segments of the path, the empty ones dropped
\* unless last.
path_segments(path) ==
    LET n == Len(path)
        nonempty(s) == s /= SegEmpty
    IN  IF n = 0 THEN <<>>
        ELSE SelectSeq(SubSeq(path, 1, n - 1), nonempty) \o <<path[n]>>

\* req.segments(0..): the segments after the mount point of the route.
routed_segments(request) ==
    LET all == path_segments(request.uri.path)
    IN  SubSeq(all, request.base_len + 1, Len(all))

\* Segments::to_path_buf(allow_dotfiles) of rocket 0.5, from segment i on:
\* ".." drops the component before it, "." is skipped, and a segment is
\* refused for a leading "." (unless allowed) or "*", a trailing ":", ">"
\* or "<", or a "/" inside.  Percent-decoding leaves the segments of the
\* model as they are: none holds a "%".
RECURSIVE to_path_buf_from(_, _, _, _)
to_path_buf_from(segs, i, buf, allow_dotfiles) ==
    IF i > Len(segs) THEN Ok(buf)
    ELSE LET segment == segs[i] IN
         IF segment = SegDotDot
            THEN to_path_buf_from(segs, i + 1, pop(buf), allow_dotfiles)
         ELSE IF segment = SegDot
            THEN to_path_buf_from(segs, i + 1, buf, allow_dotfiles)
         ELSE IF ~allow_dotfiles /\ starts_with(segment, ".") THEN Err("BadStart")
         ELSE IF starts_with(segment, "*") THEN Err("BadStart")
         ELSE IF ends_with(segment, ":") \/ ends_with(segment, ">")
                 \/ ends_with(segment, "<") THEN Err("BadEnd")
         ELSE IF contains(segment, "/") THEN Err("BadChar")
         ELSE to_path_buf_from(segs, i + 1, push(buf, segment), allow_dotfiles)

to_path_buf(segs, allow_dotfiles) == to_path_buf_from(segs, 1, <<>>, allow_dotfiles)

\* Result::ok
result_ok(r) == IF r.ok THEN Some(r.val) ELSE None

\* Response
NoLocation == None
Response(status, ct, body, location) ==
    [status |-> status, content_type |-> ct, body |-> body, location |-> location]

\* route::Outcome
Success(response) == [kind |-> "Success", response |-> response]
Forward(status) == [kind |-> "Forward", status |-> status]
Error(status) == [kind |-> "Error", status |-> status]

\* <&[u8] as Responder>::respond_to: a sized body of the bytes, with
\* Content-Type application/octet-stream.  unr holds the files whose
\* rendering fails.
respond_to_bytes(unr, file) ==
    IF file.path \in unr THEN Err("InternalServerError")
    ELSE Ok(Response("Ok", ContentTypeBinary, file.contents, NoLocation))

\* Redirect::permanent(uri).respond_to(req)
respond_to_redirect(uri) ==
    Ok(Response("PermanentRedirect", NoContentType, <<>>, Some(uri)))

\* Variant of or_forward: or_error, the failure's own status as an error.
or_error(result, status) ==
    IF result.ok THEN Success(result.val) ELSE Error(result.err)

\* IntoOutcome::or_forward for response::Result
or_forward(result, status) ==
    IF result.ok THEN Success(result.val) ELSE Forward(status)

----------------------------------------------------------------------------
(* StaticFiles *)

DEFAULT_RANK == 10

StaticFiles(d, options, rank) == [dir |-> d, options |-> options, rank |-> rank]

\* respond_with(req, path, file)
respond_with(unr, path, file) ==
    LET rendered == respond_to_bytes(unr, file)
    IN  IF ~rendered.ok THEN rendered
        ELSE LET ext == extension(path)
                 ct == IF ext.tag = "Some" THEN from_extension(ext.val) ELSE None
             IN  IF ct.tag = "Some"
                    THEN Ok([rendered.val EXCEPT !.content_type = ct.val])
                    ELSE rendered

\* Variant of serve_index: the entry is not required to be a file.
serve_index_any_entry(unr, tree, d, index_path) ==
    LET file == get_entry(tree, d, <<SegIndex>>)
        result == IF file.tag = "Some"
                     THEN respond_with(unr, index_path, file.val)
                     ELSE Err("NotFound")
    IN  or_forward(result, "NotFound")

\* d.get_entry("index.html").and_then(|f| f.as_file()).ok_or(NotFound)
\*  .and_then(|file| respond_with(req, index_path, file)).or_forward(NotFound)
serve_index(unr, tree, d, index_path) ==
    LET entry == get_entry(tree, d, <<SegIndex>>)
        file == IF entry.tag = "Some" THEN as_file(entry.val) ELSE None
        result == IF file.tag = "Some"
                     THEN respond_with(unr, index_path, file.val)
                     ELSE Err("NotFound")
    IN  or_forward(result, "NotFound")

\* Variant of directory_request: the Index option is not consulted.
directory_request_always_index(options, unr, tree, request, p, d) ==
    IF "NormalizeDirs" \in options /\ ~path_ends_with_slash(request.uri)
       THEN or_forward(respond_to_redirect(map_path_add_slash(request.uri)),
                       "InternalServerError")
    ELSE serve_index(unr, tree, d, join(p, SegIndex))

\* handle, the path names the Dir d
directory_request(options, unr, tree, request, p, d) ==
    IF "NormalizeDirs" \in options /\ ~path_ends_with_slash(request.uri)
       THEN or_forward(respond_to_redirect(map_path_add_slash(request.uri)),
                       "InternalServerError")
    ELSE IF "Index" \notin options THEN Forward("NotFound")
    ELSE serve_index(unr, tree, d, join(p, SegIndex))

\* handle, the segments gave the path p
resolved_request(self, options, unr, request, p) ==
    LET d == IF is_empty(p) THEN Some(RootDir) ELSE get_dir(self.dir, RootDir, p)
        file == get_file(self.dir, RootDir, p)
    IN  IF d.tag = "Some"
           THEN directory_request(options, unr, self.dir, request, p, d.val)
        ELSE IF file.tag = "Some"
           THEN or_forward(respond_with(unr, p, file.val), "NotFound")
        ELSE Forward("NotFound")

\* handle, the segments gave no path
rejected_request(self, options, unr) ==
    IF "Index" \in options
       THEN serve_index(unr, self.dir, RootDir, <<SegIndex>>)
       ELSE Forward("NotFound")

\* <StaticFiles as Handler>::handle(&self, req, data)
handle(self, unr, request) ==
    LET options == self.options
        allow_dotfiles == "DotFiles" \in options
        path == result_ok(to_path_buf(routed_segments(request), allow_dotfiles))
    IN  IF path.tag = "Some"
           THEN resolved_request(self, options, unr, request, path.val)
           ELSE rejected_request(self, options, unr)

\* Route::ranked(val.rank, Method::Get, "/<path..>", val)
Route(val) ==
    [rank |-> val.rank, method |-> "GET", uri |-> "/<path..>", handler |-> val]

----------------------------------------------------------------------------
(* Requests *)

SegSeqs == UNION { [1..k -> Alphabet] : k \in 0..MaxSegs }

\* GET requests routed to a StaticFiles mounted at /<mount>.
RequestsOf(mount) ==
    { [uri |-> Uri(<<mount>> \o segs \o tail, q), base_len |-> 1] :
        segs \in SegSeqs, tail \in {<<>>, <<SegEmpty>>}, q \in Queries }

NoRequest == None
NoOutcome == None

----------------------------------------------------------------------------
(* The sequential server: one StaticFiles, mounted at /default, handles    *)
(* one request after another.                                              *)

Init ==
    /\ dir \in Trees
    /\ unrenderable = {}
    /\ \E o \in AllOptions : sf = StaticFiles(dir, o, DEFAULT_RANK)
    /\ routes = <<Route(sf)>>
    /\ op = "new"
    /\ req = NoRequest
    /\ res = NoOutcome
    /\ mounts = <<>>
    /\ slots = <<>>

\* The framework hands the next request to the route's handler.
Handle(request) ==
    /\ req = NoRequest
    /\ req' = Some(request)
    /\ res' = handle(routes[1].handler, unrenderable, request)
    /\ UNCHANGED <<dir, unrenderable, sf, routes, op, mounts, slots>>

\* The framework writes the outcome out; the server is ready for the next.
Deliver ==
    /\ req /= NoRequest
    /\ req' = NoRequest
    /\ res' = NoOutcome
    /\ UNCHANGED <<dir, unrenderable, sf, routes, op, mounts, slots>>

Next ==
    \/ \E request \in RequestsOf(SegDefault) : Handle(request)
    \/ Deliver

Spec == Init /\ [][Next]_vars

\* The same server, with a body renderer that can fail (the Responder
\* contract allows Err; the handler's error path is what is examined).
FilePaths == { e.path : e \in { x \in dir : x.kind = "File" } }

InitRender ==
    /\ dir \in Trees
    /\ unrenderable \in { {p} : p \in FilePaths } \cup {FilePaths}
    /\ \E o \in AllOptions : sf = StaticFiles(dir, o, DEFAULT_RANK)
    /\ routes = <<Route(sf)>>
    /\ op = "new"
    /\ req = NoRequest
    /\ res = NoOutcome
    /\ mounts = <<>>
    /\ slots = <<>>

SpecRender == InitRender /\ [][Next]_vars

----------------------------------------------------------------------------
(* Vocabulary of the properties of the sequential server.  The tree is     *)
(* read here as a set of entries, without the handler's lookups.           *)

Handled == req /= NoRequest
TheRequest == req.val
TheOptions == sf.options

\* The non-empty segments of the request after the mount point.
SegsOf(request) ==
    LET nonempty(s) == s /= SegEmpty
    IN  SelectSeq(SubSeq(request.uri.path, request.base_len + 1,
                         Len(request.uri.path)), nonempty)

HasDotSegment(request) ==
    \E i \in 1..Len(SegsOf(request)) : SegsOf(request)[i] \in {SegDot, SegDotDot}
HasHiddenSegment(request) ==
    \E i \in 1..Len(SegsOf(request)) : SegsOf(request)[i][1] = "."

\* A path the traversal guard is specified to reject.
Guarded(request, options) ==
    \/ HasDotSegment(request)
    \/ "DotFiles" \notin options /\ HasHiddenSegment(request)

FilesAt(tree, p) == { e \in tree : e.path = p /\ e.kind = "File" }
DirsAt(tree, p) == { e \in tree : e.path = p /\ e.kind = "Dir" }
IsFile(tree, p) == FilesAt(tree, p) /= {}
IsDir(tree, p) == p = <<>> \/ DirsAt(tree, p) /= {}
FileAt(tree, p) == CHOOSE e \in FilesAt(tree, p) : TRUE

\* The path the request resolves to, when the handler accepts it.
Accepted == Handled /\ to_path_buf(routed_segments(TheRequest),
                                   "DotFiles" \in TheOptions).ok
ThePath == to_path_buf(routed_segments(TheRequest), "DotFiles" \in TheOptions).val
\* Accepted with no segment the guard is specified to reject.
PlainlyAccepted == Accepted /\ ~Guarded(TheRequest, TheOptions)

DirRequest == Accepted /\ IsDir(dir, ThePath)
FileRequest == Accepted /\ ~IsDir(dir, ThePath) /\ IsFile(dir, ThePath)
LacksSlash == TheRequest.uri.path[Len(TheRequest.uri.path)] /= SegEmpty
RedirectApplies == DirRequest /\ "NormalizeDirs" \in TheOptions /\ LacksSlash

IsForward == res.kind = "Forward"
IsNotFound == res = Forward("NotFound")
IsOk == res.kind = "Success" /\ res.response.status = "Ok"
IsRedirect == res.kind = "Success" /\ res.response.status = "PermanentRedirect"

\* The extension table, by file name.
TableType(name) ==
    IF name = SegTxt THEN Some(ContentTypePlain)
    ELSE IF name = SegIndex THEN Some(ContentTypeHTML)
    ELSE None

----------------------------------------------------------------------------
(* C1: a request path with a ".." or "." segment, or with a segment that   *)
(* begins with "." while DotFiles is unset, is forwarded: no 200 and no    *)
(* redirect, whatever Index, NormalizeDirs and the tree are.               *)
C1_GuardedPathForwards ==
    (Handled /\ Guarded(TheRequest, TheOptions)) => IsForward

(* C2: an accepted path that names a file f is answered 200 with f's bytes *)
(* as the body; Content-Type is the extension table's entry for the final  *)
(* segment when it has one, and is unset otherwise.                        *)
C2_FileServedTypeUnset ==
    (PlainlyAccepted /\ FileRequest) =>
        LET f == FileAt(dir, ThePath)
            t == TableType(ThePath[Len(ThePath)])
        IN  /\ IsOk
            /\ res.response.body = f.contents
            /\ res.response.content_type =
                  IF t.tag = "Some" THEN t.val ELSE NoContentType

(* C3 as claimed: a directory path with Index unset is always forwarded,   *)
(* NormalizeDirs set and a missing trailing slash included.                *)
C3_DirWithoutIndexForwards ==
    (DirRequest /\ "Index" \notin TheOptions) => IsForward

(* C3 as amended: a directory path with Index unset never gets a body: it  *)
(* is forwarded with NotFound, except that with NormalizeDirs set and no   *)
(* trailing slash it gets the permanent redirect; index.html plays no part.*)
C3_DirWithoutIndexForwardsOrRedirects ==
    (DirRequest /\ "Index" \notin TheOptions) =>
        IF "NormalizeDirs" \in TheOptions /\ LacksSlash
           THEN IsRedirect ELSE IsNotFound

C3_Witness ==
    /\ DirRequest /\ "Index" \notin TheOptions
    /\ ThePath = <<SegSub>>
    /\ IsFile(dir, <<SegIndex>>) /\ IsFile(dir, <<SegSub, SegIndex>>)
    /\ "NormalizeDirs" \in TheOptions /\ ~LacksSlash
    /\ IsNotFound

(* C4: with NormalizeDirs set, a request that resolves to a directory (the *)
(* mount root included) and whose URI path does not end in "/" gets a      *)
(* permanent redirect to the same path with "/" appended and the query     *)
(* unchanged, whether Index is set or not and index.html exists or not.    *)
C4_NormalizeRedirects ==
    (DirRequest /\ "NormalizeDirs" \in TheOptions /\ LacksSlash) =>
        /\ IsRedirect
        /\ res.response.location.tag = "Some"
        /\ res.response.location.val.path = TheRequest.uri.path \o <<SegEmpty>>
        /\ res.response.location.val.query = TheRequest.uri.query
        /\ res.response.body = <<>>

C4_Witness ==
    /\ DirRequest /\ "NormalizeDirs" \in TheOptions /\ LacksSlash
    /\ "Index" \in TheOptions
    /\ ThePath = <<>>
    /\ ~IsFile(dir, <<SegIndex>>)
    /\ TheRequest.uri.query /= None
    /\ IsRedirect

(* C5: with Index set, a request that resolves to a directory d and gets   *)
(* no redirect, where d has a direct child file index.html, is answered    *)
(* 200 with that file's bytes and the content type of <d>/index.html.      *)
C5_IndexOfDirectoryServed ==
    (DirRequest /\ "Index" \in TheOptions /\ ~RedirectApplies
       /\ IsFile(dir, ThePath \o <<SegIndex>>)) =>
        /\ IsOk
        /\ res.response.body = FileAt(dir, ThePath \o <<SegIndex>>).contents
        /\ res.response.content_type = ContentTypeHTML

(* C6: (i) an accepted path that names neither a directory nor a file, and *)
(* (ii) a directory path with Index set, no redirect and no direct child   *)
(* file index.html (a child directory of that name counts as absent), are  *)
(* forwarded with status NotFound and no response.                         *)
C6_NotFoundForwards ==
    /\ (Accepted /\ ~IsDir(dir, ThePath) /\ ~IsFile(dir, ThePath)) => IsNotFound
    /\ (DirRequest /\ "Index" \in TheOptions /\ ~RedirectApplies
          /\ ~IsFile(dir, ThePath \o <<SegIndex>>)) => IsNotFound

C6_Witness ==
    /\ DirRequest /\ "Index" \in TheOptions /\ ~RedirectApplies
    /\ ThePath = <<>>
    /\ DirsAt(dir, <<SegIndex>>) /= {}
    /\ IsNotFound

\* The file whose bytes the request is to be answered with, if any.
RenderTarget ==
    IF FileRequest THEN Some(FileAt(dir, ThePath))
    ELSE IF DirRequest /\ "Index" \in TheOptions /\ ~RedirectApplies
            /\ IsFile(dir, ThePath \o <<SegIndex>>)
         THEN Some(FileAt(dir, ThePath \o <<SegIndex>>))
    ELSE None
RenderFails == RenderTarget.tag = "Some" /\ RenderTarget.val.path \in unrenderable

----------------------------------------------------------------------------
(* Construction: the builder calls of application start-up, and the        *)
(* conversion into routes that mount() performs.                           *)

NoStaticFiles == None
Ranks == {DEFAULT_RANK, -1, 11}

InitBuild ==
    /\ dir \in Trees
    /\ unrenderable = {}
    /\ sf = NoStaticFiles
    /\ routes = <<>>
    /\ op = "none"
    /\ req = NoRequest
    /\ res = NoOutcome
    /\ mounts = <<>>
    /\ slots = <<>>

\* StaticFiles::new(dir, options)
New(options) ==
    /\ sf' = StaticFiles(dir, options, DEFAULT_RANK)
    /\ op' = "new"
    /\ UNCHANGED <<dir, unrenderable, routes, req, res, mounts, slots>>

\* StaticFiles::from(dir)
From ==
    /\ sf' = StaticFiles(dir, DefaultOptions, DEFAULT_RANK)
    /\ op' = "from"
    /\ UNCHANGED <<dir, unrenderable, routes, req, res, mounts, slots>>

\* self.options(options)
WithOptions(options) ==
    /\ sf /= NoStaticFiles
    /\ sf' = [sf EXCEPT !.options = options]
    /\ op' = "options"
    /\ UNCHANGED <<dir, unrenderable, routes, req, res, mounts, slots>>

\* Variant of rank: the value is rebuilt from its dir, the options are lost.
WithRankRebuilt(rank) ==
    /\ sf /= NoStaticFiles
    /\ sf' = StaticFiles(sf.dir, DefaultOptions, rank)
    /\ op' = "rank"
    /\ UNCHANGED <<dir, unrenderable, routes, req, res, mounts, slots>>

\* self.rank(rank)
WithRank(rank) ==
    /\ sf /= NoStaticFiles
    /\ sf' = [sf EXCEPT !.rank = rank]
    /\ op' = "rank"
    /\ UNCHANGED <<dir, unrenderable, routes, req, res, mounts, slots>>

\* Vec::<Route>::from(value): vec![value.into()]
IntoRoutes ==
    /\ sf /= NoStaticFiles
    /\ routes' = <<Route(sf)>>
    /\ op' = "into"
    /\ UNCHANGED <<dir, unrenderable, sf, req, res, mounts, slots>>

NextBuild ==
    \/ \E o \in AllOptions : New(o)
    \/ From
    \/ \E o \in AllOptions : WithOptions(o)
    \/ \E r \in Ranks : WithRank(r)
    \/ IntoRoutes

SpecBuild == InitBuild /\ [][NextBuild]_vars

(* C8: new and from give rank 10; rank(r) changes the rank alone and       *)
(* options(o) the options alone; the conversion yields exactly one route,  *)
(* GET on /<path..>, at the rank held when converting.                     *)
C8_FreshRank == op \in {"new", "from"} => (sf.rank = 10 /\ sf.dir = dir)
C8_OneRoute ==
    op = "into" =>
        /\ Len(routes) = 1
        /\ routes[1].method = "GET"
        /\ routes[1].uri = "/<path..>"
        /\ routes[1].rank = sf.rank
        /\ routes[1].handler = sf
C8_Frame ==
    /\ op' = "rank" => (sf'.dir = sf.dir /\ sf'.options = sf.options)
    /\ op' = "options" => (sf'.dir = sf.dir /\ sf'.rank = sf.rank)
    /\ op' = "into" => sf' = sf
C8_Construction == [](C8_FreshRank /\ C8_OneRoute) /\ [][C8_Frame]_vars

C8_Witness ==
    /\ op = "into"
    /\ sf.rank = -1
    /\ sf.options = {"DotFiles"}
    /\ routes[1].rank = -1

----------------------------------------------------------------------------
(* The concurrent server: launch() of the tests mounts one StaticFiles at  *)
(* /default (with Options::default(), or with DotFiles so that the hidden  *)
(* file is reachable) and one at /indexed (Options::Index) over the same   *)
(* tree; the framework runs handle() for several requests at once, each on *)
(* its own task.                                                           *)

Mounts == {SegDefault, SegIndexed}

\* The request paths sent to each mount: /m, /m/, /m/s, /m/t.txt, /m/.h
ServedRequests(mount) ==
    { [uri |-> Uri(<<mount>> \o rest, None), base_len |-> 1] :
        rest \in { <<>>, <<SegEmpty>>, <<SegSub>>, <<SegTxt>>, <<SegHidden>> } }

\* The trees served: no index.html, one at the root, one in each directory.
ServedTrees ==
    { BaseEntries,
      BaseEntries \cup {FileEntry(<<SegIndex>>, <<1>>)},
      BaseEntries \cup {FileEntry(<<SegIndex>>, <<1>>),
                        FileEntry(<<SegSub, SegIndex>>, <<5>>)} }

Idle ==
    [pc |-> "idle", mount |-> None, request |-> None, options |-> None,
     path |-> None, outcome |-> None]

InitServe ==
    /\ dir \in ServedTrees
    /\ unrenderable = {}
    /\ sf = NoStaticFiles
    /\ routes = <<>>
    /\ op = "none"
    /\ req = NoRequest
    /\ res = NoOutcome
    /\ \E o \in {DefaultOptions, {"DotFiles"}} :
          mounts = (SegDefault :> StaticFiles(dir, o, DEFAULT_RANK))
                   @@ (SegIndexed :> StaticFiles(dir, {"Index"}, DEFAULT_RANK))
    /\ slots = [i \in 1..MaxInflight |-> Idle]

\* The framework routes a request to a mount and starts handle() on a task.
Dispatch(i, mount, request) ==
    /\ slots[i].pc = "idle"
    /\ slots' = [slots EXCEPT ![i] =
                    [Idle EXCEPT !.pc = "start", !.mount = Some(mount),
                                 !.request = Some(request)]]
    /\ UNCHANGED <<dir, unrenderable, sf, routes, op, req, res, mounts>>

\* Variant of ReadOptions: the handler runs under a lock of the responder.
ReadOptionsLocked(i) ==
    /\ slots[i].pc = "start"
    /\ \A j \in 1..MaxInflight : j /= i => slots[j].pc /= "parsed"
    /\ LET self == mounts[slots[i].mount.val]
           options == self.options
           path == result_ok(to_path_buf(routed_segments(slots[i].request.val),
                                         "DotFiles" \in options))
       IN  slots' = [slots EXCEPT ![i] =
                        [@ EXCEPT !.pc = "parsed", !.options = Some(options),
                                  !.path = path]]
    /\ UNCHANGED <<dir, unrenderable, sf, routes, op, req, res, mounts>>

\* handle: copy self.options, turn the segments into a path
ReadOptions(i) ==
    /\ slots[i].pc = "start"
    /\ LET self == mounts[slots[i].mount.val]
           options == self.options
           path == result_ok(to_path_buf(routed_segments(slots[i].request.val),
                                         "DotFiles" \in options))
       IN  slots' = [slots EXCEPT ![i] =
                        [@ EXCEPT !.pc = "parsed", !.options = Some(options),
                                  !.path = path]]
    /\ UNCHANGED <<dir, unrenderable, sf, routes, op, req, res, mounts>>

\* Variant of Respond: the responder remembers that it has redirected and
\* does not normalize again.
RespondRemembering(i) ==
    /\ slots[i].pc = "parsed"
    /\ LET m == slots[i].mount.val
           self == mounts[m]
           options == slots[i].options.val
           request == slots[i].request.val
           outcome == IF slots[i].path.tag = "Some"
                         THEN resolved_request(self, options, unrenderable,
                                               request, slots[i].path.val)
                         ELSE rejected_request(self, options, unrenderable)
           redirected == outcome.kind = "Success"
                         /\ outcome.response.status = "PermanentRedirect"
       IN  /\ slots' = [slots EXCEPT ![i] =
                           [@ EXCEPT !.pc = "done", !.outcome = Some(outcome)]]
           /\ mounts' = IF redirected
                           THEN [mounts EXCEPT ![m].options = @ \ {"NormalizeDirs"}]
                           ELSE mounts
    /\ UNCHANGED <<dir, unrenderable, sf, routes, op, req, res>>

\* handle: the match on the path, up to the Outcome
Respond(i) ==
    /\ slots[i].pc = "parsed"
    /\ LET self == mounts[slots[i].mount.val]
           options == slots[i].options.val
           request == slots[i].request.val
           outcome == IF slots[i].path.tag = "Some"
                         THEN resolved_request(self, options, unrenderable,
                                               request, slots[i].path.val)
                         ELSE rejected_request(self, options, unrenderable)
       IN  slots' = [slots EXCEPT ![i] =
                        [@ EXCEPT !.pc = "done", !.outcome = Some(outcome)]]
    /\ UNCHANGED <<dir, unrenderable, sf, routes, op, req, res, mounts>>

\* The framework writes the outcome out and the task ends.
Complete(i) ==
    /\ slots[i].pc = "done"
    /\ slots' = [slots EXCEPT ![i] = Idle]
    /\ UNCHANGED <<dir, unrenderable, sf, routes, op, req, res, mounts>>

NextServe ==
    \E i \in 1..MaxInflight :
        \/ \E m \in Mounts : \E request \in ServedRequests(m) : Dispatch(i, m, request)
        \/ ReadOptions(i)
        \/ Respond(i)
        \/ Complete(i)

SpecServe == InitServe /\ [][NextServe]_vars

Done(i) == slots[i].pc = "done"
Running(i) == slots[i].pc \in {"start", "parsed"}

(* C9: for a fixed responder, two requests for the same URI, wherever they *)
(* fall in the sequence of requests, get the same outcome: decision,       *)
(* status, body, content type and location.                                *)
C9_Idempotent ==
    \A i, j \in 1..MaxInflight :
        (Done(i) /\ Done(j) /\ slots[i].mount = slots[j].mount
           /\ slots[i].request = slots[j].request)
        => slots[i].outcome = slots[j].outcome

C9_Witness ==
    /\ Done(1) /\ Done(2)
    /\ slots[1].request = slots[2].request
    /\ slots[1].mount = Some(SegDefault) /\ slots[2].mount = Some(SegDefault)
    /\ slots[1].outcome.val.kind = "Success"
    /\ slots[1].outcome.val.response.status = "PermanentRedirect"

(* C10: under every interleaving of handle() invocations, on one mount or  *)
(* on both, the tree, the options and the rank are never modified, each    *)
(* outcome is the one the request gets when handled alone, and no          *)
(* invocation waits for another.                                           *)
C10_AsAlone ==
    \A i \in 1..MaxInflight :
        Done(i) => slots[i].outcome =
                     Some(handle(mounts[slots[i].mount.val], {}, slots[i].request.val))
C10_NoWaiting ==
    \A i \in 1..MaxInflight :
        Running(i) => ENABLED (ReadOptions(i) \/ Respond(i))
C10_ReadOnly == mounts' = mounts /\ dir' = dir
C10_Independent == [](C10_AsAlone /\ C10_NoWaiting) /\ [][C10_ReadOnly]_vars

C10_Witness ==
    /\ Done(1) /\ slots[2].pc = "parsed"
    /\ slots[1].mount = Some(SegIndexed) /\ slots[2].mount = Some(SegDefault)
    /\ slots[1].outcome.val.kind = "Success"
    /\ slots[1].outcome.val.response.body = <<1>>

====
